---- MODULE Spec2Model ----
(***************************************************************************)
(* A model of the TIG fractal runtime of src/TIGFractalEngine.py: the      *)
(* Pulse (a self-tuning timer), the Triad (a node of the aggregator tree)  *)
(* and the LatticeRuntime (spine, dispatch, tick).                         *)
(*                                                                         *)
(* Python floats are modelled in fixed point.  The units are:              *)
(*   ratios (sigma, cv, vitality, alignment)   1/1000        (Milli)      *)
(*   observations fed to a Triad               1/1000                      *)
(*   Triad.self_emv (a squared observation)    1/1000000                   *)
(*   scores (S*, macro_s_star, coherence)      1/ScoreOne                  *)
(*   spine values                              1/SpineOne                  *)
(*   clock readings                            1 ns                        *)
(*   Pulse.ema_actual, Pulse.ema_error         1/1000 ns                   *)
(* Every product is divided back to its unit with a floor, where the       *)
(* float operation rounds to nearest.                                      *)
(***************************************************************************)
EXTENDS Integers, Sequences, FiniteSets, TLC

Milli == 10 * 10 * 10

Million == Milli * Milli

(* A score of 1.0.  A computed S* has six decimals; the factor 96 makes    *)
(* the blends of the tree exact: a blend halves, and the mean over k       *)
(* reported children divides by k <= 4, at most three levels deep.         *)
ScoreOne == 96 * Million

(* A spine value of 1.0. *)
SpineOne == 10 * Milli

(* ---------------------------------------------------------------------- *)
(* Arithmetic                                                             *)
(* ---------------------------------------------------------------------- *)

Abs(x) == IF x < 0 THEN -x ELSE x

Max(a, b) == IF a >= b THEN a ELSE b

Min(a, b) == IF a <= b THEN a ELSE b

(* floor(x * n / 1000) for 0 <= n <= 1000, without forming x * n. *)
MulMilli(x, n) == (x \div Milli) * n + ((x % Milli) * n) \div Milli

(* Python's int(a / b): the quotient truncated toward zero, b # 0. *)
TruncDiv(a, b) ==
    IF (a >= 0) = (b > 0) THEN Abs(a) \div Abs(b) ELSE -(Abs(a) \div Abs(b))

(* The quotient a / b rounded down, for a divisor of either sign. *)
FloorDiv(a, b) == IF b > 0 THEN a \div b ELSE (-a) \div (-b)

(* The least integer >= x / 1000. *)
CeilMilli(x) == -((-x) \div Milli)

RECURSIVE SqrtSearch(_, _, _)
SqrtSearch(x, lo, hi) ==
    IF lo >= hi THEN lo
    ELSE LET mid == (lo + hi + 1) \div 2
         IN  IF mid * mid <= x THEN SqrtSearch(x, mid, hi)
             ELSE SqrtSearch(x, lo, mid - 1)

(* floor(sqrt(x)), x >= 0 (46340^2 is the largest square below 2^31). *)
ISqrt(x) == SqrtSearch(x, 0, Min(x, 46340))

RECURSIVE SumSeq(_)
SumSeq(s) == IF s = << >> THEN 0 ELSE Head(s) + SumSeq(Tail(s))

(* The last n elements of s (all of s when it is shorter): list(buf)[-n:]. *)
LastN(s, n) == IF Len(s) <= n THEN s ELSE SubSeq(s, Len(s) - n + 1, Len(s))

(* deque(maxlen = cap).append(x). *)
DequeAppend(s, x, cap) == LastN(Append(s, x), cap)

(* ---------------------------------------------------------------------- *)
(* Constants of the program                                               *)
(* ---------------------------------------------------------------------- *)

SIGMA == 991

SIGMA_STAR == 9

T_STAR == 714

(* FACTOR = SIGMA * (1 - SIGMA_STAR) = 0.982081, in millionths. *)
FACTOR == SIGMA * (Milli - SIGMA_STAR)

(* T_STAR as a score and as a spine value. *)
TStarScore == T_STAR * (ScoreOne \div Milli)

TStarSpine == T_STAR * (SpineOne \div Milli)

(* s_star(V, A) = FACTOR * V * A, V and A in thousandths, the result a     *)
(* score.  Python multiplies left to right.                                *)
s_star(V, A) ==
    LET fv == (FACTOR * V) \div Milli      \* FACTOR * V, in millionths
    IN  ((fv * A) \div Milli) * (ScoreOne \div Million)

(* ---------------------------------------------------------------------- *)
(* Triad: one node of the aggregator tree                                 *)
(* ---------------------------------------------------------------------- *)

(* Triad.C, the inter-scale coupling constant. *)
C == 1

(* alpha = 1.0 - SIGMA, the weight of a new sample in the moving averages. *)
ALPHA == Milli - SIGMA

(* The lengths of Triad._micro_buf and of the window the alignment reads. *)
MicroBufLen == 64

MinSamples == 4

None == "None"

(* The empty dict. *)
EmptyDict == [k \in {} |-> 0]

(* d[key] = value on a dict d. *)
DictSet(d, key, value) ==
    [k \in (DOMAIN d) \cup {key} |-> IF k = key THEN value ELSE d[k]]

(* sum(d.values()). *)
RECURSIVE DictSum(_)
DictSum(d) ==
    IF DOMAIN d = {} THEN 0
    ELSE LET k == CHOOSE x \in DOMAIN d : TRUE
         IN  d[k] + DictSum([j \in (DOMAIN d) \ {k} |-> d[j]])

(* Triad.__init__ without the parent's side: the fields of a new node.     *)
(* own_s_star, own_s and macro_by are not fields of the class: the first   *)
(* two keep the value of the local variable of that name in the node's     *)
(* last observe() and last _receive_child_coherence() (until then the      *)
(* node's score is T_STAR), the third names the method that last assigned  *)
(* macro_s_star.                                                           *)
NewTriad(name, parent) ==
    [ name |-> name,
      micro_buf |-> << >>,
      micro_len |-> 0,
      self_ema |-> 0,
      self_emv |-> 0,
      macro_s_star |-> TStarScore,
      count |-> 0,
      parent |-> parent,
      children |-> << >>,
      child_coherences |-> EmptyDict,
      own_s_star |-> TStarScore,
      own_s |-> TStarScore,
      macro_by |-> "__init__" ]

(* Triad(name, parent) on the tree T (a function from names to nodes):     *)
(* the new node, appended to its parent's children.                        *)
Triad_init(T, name, parent) ==
    LET withNode == [k \in (DOMAIN T) \cup {name} |->
                        IF k = name THEN NewTriad(name, parent) ELSE T[k]]
    IN  IF parent = None THEN withNode
        ELSE [withNode EXCEPT ![parent].children = Append(@, name)]

(* cv = sqrt(self_emv) / self_ema, in thousandths (self_ema > 0). *)
Cv(ema, emv) == (Milli * ISqrt(emv)) \div ema

(* vitality = 1.0 / (1.0 + cv). *)
Vitality(cv) == Million \div (Milli + cv)

(* The steps of the last four observations. *)
Diffs(recent) == [i \in 1..(Len(recent) - 1) |-> recent[i + 1] - recent[i]]

(* all(d >= 0 for d in diffs) or all(d <= 0 for d in diffs). *)
Monotonic(diffs) ==
    \/ \A i \in DOMAIN diffs : diffs[i] >= 0
    \/ \A i \in DOMAIN diffs : diffs[i] <= 0

(* Alignment with "or all(d <= 0 for d in diffs)" forgotten. *)
AlignmentUpOnly(buf) ==
    IF Len(buf) >= MinSamples
    THEN LET diffs == Diffs(LastN(buf, MinSamples))
             same == Cardinality({i \in 1..(Len(diffs) - 1) :
                                    (diffs[i] >= 0) = (diffs[i + 1] >= 0)})
         IN  IF \A i \in DOMAIN diffs : diffs[i] >= 0 THEN Milli
             ELSE ((same + 1) * Milli) \div Len(diffs)
    ELSE Milli \div 2

(* Alignment as the agreeing adjacent pairs over the adjacent pairs. *)
AlignmentPairs(buf) ==
    IF Len(buf) >= MinSamples
    THEN LET diffs == Diffs(LastN(buf, MinSamples))
             same == Cardinality({i \in 1..(Len(diffs) - 1) :
                                    (diffs[i] >= 0) = (diffs[i + 1] >= 0)})
         IN  IF Monotonic(diffs) THEN Milli
             ELSE (same * Milli) \div (Len(diffs) - 1)
    ELSE Milli \div 2

(* The alignment of observe(), in thousandths, from the whole buffer. *)
Alignment(buf) ==
    IF Len(buf) >= MinSamples
    THEN LET diffs == Diffs(LastN(buf, MinSamples))
             same == Cardinality({i \in 1..(Len(diffs) - 1) :
                                    (diffs[i] >= 0) = (diffs[i + 1] >= 0)})
         IN  IF Monotonic(diffs) THEN Milli
             ELSE ((same + 1) * Milli) \div Len(diffs)
    ELSE Milli \div 2

(* OwnSStar without the default for a short history. *)
OwnSStarEager(node) ==
    LET cv == IF node.self_ema > 0
              THEN Cv(node.self_ema, node.self_emv) ELSE Milli
    IN  s_star(Vitality(cv), Alignment(node.micro_buf))

(* own_s_star of observe(): the node's own coherence after the update. *)
OwnSStar(node) ==
    IF node.micro_len >= MinSamples
    THEN LET cv == IF node.self_ema > 0
                   THEN Cv(node.self_ema, node.self_emv) ELSE Milli
         IN  s_star(Vitality(cv), Alignment(node.micro_buf))
    ELSE TStarScore

(* own_s of _receive_child_coherence(): alignment is the constant 0.5. *)
OwnS(node) ==
    IF node.self_ema > 0 /\ node.micro_len >= MinSamples
    THEN s_star(Vitality(Cv(node.self_ema, node.self_emv)), Milli \div 2)
    ELSE TStarScore

(* Blend with the division by 1 + C forgotten. *)
BlendSum(own, coherences) ==
    own + (DictSum(coherences) \div Cardinality(DOMAIN coherences)) * C

(* Blend with the child's score damped by sigma at the hop. *)
BlendDamped(own, coherences) ==
    LET child_mean == DictSum(coherences) \div Cardinality(DOMAIN coherences)
    IN  (own + MulMilli(child_mean, SIGMA) * C) \div (1 + C)

(* Blend with every child weighted like the node's own score. *)
BlendPerChild(own, coherences) ==
    (own + DictSum(coherences) * C) \div (1 + Cardinality(DOMAIN coherences) * C)

(* (own + child_mean * C) / (1 + C) over the reported children. *)
Blend(own, coherences) ==
    LET child_mean == DictSum(coherences) \div Cardinality(DOMAIN coherences)
    IN  (own + child_mean * C) \div (1 + C)

(* receive_child_coherence with the report stopping at the first parent. *)
receive_child_coherence_once(T, p, child_name, child_s_star) ==
    LET stored == DictSet(T[p].child_coherences, child_name, child_s_star)
        own == OwnS(T[p])
    IN  [T EXCEPT ![p].child_coherences = stored,
                  ![p].own_s = own,
                  ![p].macro_s_star = Blend(own, stored),
                  ![p].macro_by = "_receive_child_coherence"]

(* Triad._receive_child_coherence(child_name, child_s_star) on node p,     *)
(* with the calls it makes up the tree.                                    *)
RECURSIVE receive_child_coherence(_, _, _, _)
receive_child_coherence(T, p, child_name, child_s_star) ==
    LET stored == DictSet(T[p].child_coherences, child_name, child_s_star)
        own == OwnS(T[p])
        macro == IF DOMAIN stored # {} THEN Blend(own, stored)
                 ELSE T[p].macro_s_star
        T1 == [T EXCEPT ![p].child_coherences = stored,
                        ![p].own_s = own,
                        ![p].macro_s_star = macro,
                        ![p].macro_by = "_receive_child_coherence"]
    IN  IF T[p].parent # None
        THEN receive_child_coherence(T1, T[p].parent, p, macro)
        ELSE T1

(* The moving mean and variance after one more observation. *)
SelfEma(node, value) ==
    IF node.count + 1 = 1 THEN value
    ELSE (ALPHA * value + SIGMA * node.self_ema) \div Milli

SelfEmv(node, value, ema) ==
    IF node.count + 1 = 1 THEN 0
    ELSE MulMilli((value - ema) * (value - ema), ALPHA)
         + MulMilli(node.self_emv, SIGMA)

(* Triad.observe(value) on node n, with the report it sends up the tree. *)
observe(T, n, value) ==
    LET ema == SelfEma(T[n], value)
        updated == [T[n] EXCEPT
                      !.count = @ + 1,
                      !.micro_buf = DequeAppend(@, value, MicroBufLen),
                      !.micro_len = Min(@ + 1, MicroBufLen),
                      !.self_ema = ema,
                      !.self_emv = SelfEmv(T[n], value, ema)]
        own == OwnSStar(updated)
        macro == IF DOMAIN updated.child_coherences # {}
                 THEN Blend(own, updated.child_coherences)
                 ELSE own
        T1 == [T EXCEPT ![n] = [updated EXCEPT !.own_s_star = own,
                                               !.macro_s_star = macro,
                                               !.macro_by = "observe"]]
    IN  IF T[n].parent # None
        THEN receive_child_coherence(T1, T[n].parent, n, macro)
        ELSE T1

(* ---------------------------------------------------------------------- *)
(* Pulse: the self-tuning timer                                           *)
(* ---------------------------------------------------------------------- *)

HistoryLen == 256

CoherenceWindow == 16

MinAdjustedNs == 100

Billion == Milli * Million

(* natural_freq = 1e9 / self.ema_actual, in thousandths of a Hz, from the  *)
(* smoothed interval in whole ns (the quotient by long division).          *)
NaturalFreq(ema_actual) ==
    LET ns == ema_actual \div Milli
    IN  (Billion \div ns) * Milli + ((Billion % ns) * Milli) \div ns

(* Pulse.__init__(target_hz), target_hz # 0 (1e9 / 0 raises).  phase is    *)
(* kept in tenths; natural_freq in thousandths of a Hz.                    *)
Pulse_init(target_hz) ==
    [ target_ns |-> TruncDiv(Billion, target_hz),
      phase |-> 0,
      ema_actual |-> TruncDiv(Billion, target_hz) * Milli,
      ema_error |-> 0,
      sigma_weight |-> SIGMA,
      fire_count |-> 0,
      lock_achieved |-> FALSE,
      natural_freq |-> target_hz * Milli,
      coherence |-> TStarScore,
      history |-> << >>,
      hist_len |-> 0 ]

(* adjusted_ns = max(100, ema_actual - int(correction)), in 1/1000 ns. *)
AdjustedNs(p) ==
    LET correction == MulMilli(p.ema_error, Milli - p.sigma_weight)
    IN  Max(MinAdjustedNs * Milli,
            p.ema_actual - TruncDiv(correction, Milli) * Milli)

(* The spin loop leaves at the first clock reading at or past the          *)
(* deadline; t_end is read after it, overshoot ns later.                   *)
ActualNs(p, overshoot) == CeilMilli(AdjustedNs(p)) + overshoot

(* floor(d * d / 100), without forming d * d. *)
SquareCenti(d) ==
    LET a == Abs(d) \div 10
        b == Abs(d) % 10
    IN  a * a + (20 * a * b + b * b) \div 100

(* var = sum((x - mu)**2 for x in recent) / len(recent), in 100 ns^2. *)
RECURSIVE SumSquares(_, _, _)
SumSquares(recent, mu, n) ==
    IF recent = << >> THEN 0
    ELSE SquareCenti(Head(recent) - mu) \div n + SumSquares(Tail(recent), mu, n)

(* vitality over the last 16 intervals, in thousandths. *)
PulseVitality(recent) ==
    LET mu == SumSeq(recent) \div Len(recent)
        var == SumSquares(recent, mu, Len(recent))
        cv == IF mu > 0 THEN (Milli * 10 * ISqrt(var)) \div mu ELSE Milli
    IN  Vitality(cv)

(* alignment = 1.0 / (1.0 + abs(ema_error) / target_ns), in thousandths. *)
PulseAlignment(ema_error, target_ns) ==
    FloorDiv(Million, Milli + FloorDiv(Abs(ema_error), target_ns))

(* Lock with "and not self.lock_achieved" forgotten: the frequency is      *)
(* recorded again at every coherent firing.                                *)
LockRefreshes(p, c) ==
    IF c >= TStarScore
    THEN [p EXCEPT !.coherence = c,
                   !.lock_achieved = TRUE,
                   !.natural_freq = NaturalFreq(p.ema_actual)]
    ELSE [p EXCEPT !.coherence = c]

(* Lock with the lock following the coherence instead of latching. *)
LockFollows(p, c) ==
    [p EXCEPT !.coherence = c,
              !.lock_achieved = (c >= TStarScore),
              !.natural_freq = IF c >= TStarScore
                               THEN NaturalFreq(p.ema_actual)
                               ELSE @]

(* The lock test of wait(): the pulse after the coherence c was computed. *)
Lock(p, c) ==
    IF c >= TStarScore /\ ~p.lock_achieved
    THEN [p EXCEPT !.coherence = c,
                   !.lock_achieved = TRUE,
                   !.natural_freq = NaturalFreq(p.ema_actual)]
    ELSE [p EXCEPT !.coherence = c]

(* Pulse_wait with the count of firings left as it was. *)
Pulse_wait_uncounted(p, overshoot) ==
    LET actual_ns == ActualNs(p, overshoot)
        alpha == Milli - p.sigma_weight
        error == actual_ns - p.target_ns
        p1 == [p EXCEPT
                 !.ema_actual = alpha * actual_ns + MulMilli(@, p.sigma_weight),
                 !.ema_error = alpha * error + MulMilli(@, p.sigma_weight),
                 !.history = DequeAppend(@, actual_ns, HistoryLen),
                 !.hist_len = Min(@ + 1, HistoryLen)]
    IN  [p1 EXCEPT !.phase = (@ + 1) % 10]

(* Pulse.wait() when the clock overshoots the deadline by overshoot ns. *)
Pulse_wait(p, overshoot) ==
    LET actual_ns == ActualNs(p, overshoot)
        alpha == Milli - p.sigma_weight
        error == actual_ns - p.target_ns
        p1 == [p EXCEPT
                 !.ema_actual = alpha * actual_ns + MulMilli(@, p.sigma_weight),
                 !.ema_error = alpha * error + MulMilli(@, p.sigma_weight),
                 !.history = DequeAppend(@, actual_ns, HistoryLen),
                 !.hist_len = Min(@ + 1, HistoryLen)]
        p2 == IF p1.hist_len >= CoherenceWindow
              THEN Lock(p1, s_star(PulseVitality(LastN(p1.history, CoherenceWindow)),
                                   PulseAlignment(p1.ema_error, p1.target_ns)))
              ELSE p1
    IN  [p2 EXCEPT !.fire_count = @ + 1,
                   !.phase = (@ + 1) % 10]

(* The dict wait() returns. *)
PulseData(p0, p1, overshoot) ==
    [ ns |-> ActualNs(p0, overshoot),
      error_ns |-> ActualNs(p0, overshoot) - p0.target_ns,
      phase |-> p1.phase,
      coherence |-> p1.coherence,
      locked |-> p1.lock_achieved,
      fire |-> p1.fire_count ]

(* ---------------------------------------------------------------------- *)
(* LatticeRuntime                                                         *)
(* ---------------------------------------------------------------------- *)

VARIABLES
    constructed,    \* a LatticeRuntime exists
    pulse,          \* self.pulse (in SpecPulse: a Pulse of its own)
    triads,         \* the Triad tree, by node name
    spine,          \* self.spine, stage i at index i + 1
    spine_phase,    \* self.spine_phase
    ops_total,      \* self.ops_total
    ops_by_domain,  \* self.ops_by_domain
    epoch_count,    \* self.epoch_count
    last,           \* the last call: what was called, with what, and how it ended
    spine_log,      \* <<spine_phase, epoch_count>> after each _advance_spine()
                    \* (the latest scenario.log of them)
    calls,          \* the number of calls made so far
    nlate,          \* the number of late wake-ups of the pulse among them
    scenario,       \* the inputs the calls of this run draw from
    running,        \* self.running
    pc,             \* where the caller's thread and the heartbeat thread are
    frame,          \* the local variables of the call each thread is in
    nbeats,         \* the number of tick() calls the heartbeat thread has begun
    stopped,        \* stop_heartbeat() has returned
    snapshot,       \* << the dict the caller's latest status() returned >>
    engine          \* the counters of a TIGPhysicsEngine: tick, triad_count

vars == << constructed, pulse, triads, spine, spine_phase, ops_total,
           ops_by_domain, epoch_count, last, spine_log, calls, nlate, scenario,
           running, pc, frame, nbeats, stopped, snapshot, engine >>

(* What a call made on one thread, start to end, leaves alone: the other   *)
(* thread, the heartbeat, and the snapshots the caller holds.              *)
aside == << running, pc, frame, nbeats, stopped, snapshot, engine >>

(* LatticeRuntime.DOMAINS. *)
DOMAINS == << "compute", "memory", "io", "net" >>

DomainSet == {DOMAINS[i] : i \in DOMAIN DOMAINS}

(* self.domains[domain] and self.micro_triads[domain], as node names:      *)
(* domain.upper() and f"{domain}_micro".                                   *)
Upper(domain) ==
    CASE domain = "compute" -> "COMPUTE"
      [] domain = "memory" -> "MEMORY"
      [] domain = "io" -> "IO"
      [] domain = "net" -> "NET"

MicroName(domain) ==
    CASE domain = "compute" -> "compute_micro"
      [] domain = "memory" -> "memory_micro"
      [] domain = "io" -> "io_micro"
      [] domain = "net" -> "net_micro"

(* The two loops of __init__ that build the domain and the micro triads. *)
RECURSIVE AddDomains(_, _)
AddDomains(T, ds) ==
    IF ds = << >> THEN T
    ELSE AddDomains(Triad_init(T, Upper(Head(ds)), "EPOCH"), Tail(ds))

RECURSIVE AddMicros(_, _)
AddMicros(T, ds) ==
    IF ds = << >> THEN T
    ELSE AddMicros(Triad_init(T, MicroName(Head(ds)), Upper(Head(ds))), Tail(ds))

(* The tree LatticeRuntime.__init__ builds. *)
RuntimeTree ==
    LET root == Triad_init(EmptyDict, "SYSTEM", None)
        epoch == Triad_init(root, "EPOCH", "SYSTEM")
    IN  AddMicros(AddDomains(epoch, DOMAINS), DOMAINS)

(* round(1000 * sin(n * 0.1)) for n = 0..63. *)
SinTable ==
    << 0, 100, 199, 296, 389, 479, 565, 644, 717, 783, 841, 891, 932, 964,
       985, 997, 1000, 992, 974, 946, 909, 863, 808, 746, 675, 598, 516, 427,
       335, 239, 141, 42, -58, -158, -256, -351, -443, -530, -612, -688, -757,
       -818, -872, -916, -952, -978, -994, -1000, -996, -982, -959, -926,
       -883, -832, -773, -706, -631, -551, -465, -374, -279, -182, -83, 17 >>

SinMilli(n) == SinTable[n + 1]

SpineMin == SpineOne \div Milli

(* SpineOperator with stage 3 decaying like stage 4. *)
SpineOperatorBackward(i, old, prev, sp, noise, fire_count) ==
    CASE i = 0 -> ((prev * (Milli - SIGMA)) \div Milli) \div 10
      [] i = 1 -> (old * SIGMA + prev * (Milli - SIGMA)) \div Milli
      [] i = 2 -> (Abs(old - prev) * SIGMA + old * (Milli - SIGMA)) \div Milli
      [] i = 3 -> (old * SIGMA) \div Milli
      [] i = 4 -> (old * SIGMA) \div Milli
      [] i = 5 -> (old + SumSeq(sp) \div 10) \div 2
      [] i = 6 -> (old * SIGMA) \div Milli + noise
      [] i = 7 -> ISqrt(Max(SpineMin * SpineOne, old * prev))
      [] i = 8 -> old + (old * 5 * SinMilli(fire_count)) \div Million
      [] i = 9 -> (old * SIGMA + TStarSpine * (Milli - SIGMA)) \div Milli

(* SpineOperator with stage 0 taking the predecessor's value, decayed. *)
SpineOperatorUngrounded(i, old, prev, sp, noise, fire_count) ==
    CASE i = 0 -> (prev * SIGMA) \div Milli
      [] i = 1 -> (old * SIGMA + prev * (Milli - SIGMA)) \div Milli
      [] i = 2 -> (Abs(old - prev) * SIGMA + old * (Milli - SIGMA)) \div Milli
      [] i = 3 -> old + ((SpineOne - old) * (Milli - SIGMA)) \div Milli
      [] i = 4 -> (old * SIGMA) \div Milli
      [] i = 5 -> (old + SumSeq(sp) \div 10) \div 2
      [] i = 6 -> (old * SIGMA) \div Milli + noise
      [] i = 7 -> ISqrt(Max(SpineMin * SpineOne, old * prev))
      [] i = 8 -> old + (old * 5 * SinMilli(fire_count)) \div Million
      [] i = 9 -> (old * SIGMA + TStarSpine * (Milli - SIGMA)) \div Milli

(* The operator of stage i applied to old = spine[i], prev = spine[i - 1]; *)
(* sp is the whole spine, noise the sample of random.gauss(0, 0.001), and  *)
(* fire_count the pulse's.                                                 *)
SpineOperator(i, old, prev, sp, noise, fire_count) ==
    CASE i = 0 -> ((prev * (Milli - SIGMA)) \div Milli) \div 10
      [] i = 1 -> (old * SIGMA + prev * (Milli - SIGMA)) \div Milli
      [] i = 2 -> (Abs(old - prev) * SIGMA + old * (Milli - SIGMA)) \div Milli
      [] i = 3 -> old + ((SpineOne - old) * (Milli - SIGMA)) \div Milli
      [] i = 4 -> (old * SIGMA) \div Milli
      [] i = 5 -> (old + SumSeq(sp) \div 10) \div 2
      [] i = 6 -> (old * SIGMA) \div Milli + noise
      [] i = 7 -> ISqrt(Max(SpineMin * SpineOne, old * prev))
      [] i = 8 -> old + (old * 5 * SinMilli(fire_count)) \div Million
      [] i = 9 -> (old * SIGMA + TStarSpine * (Milli - SIGMA)) \div Milli

(* AdvancedSpine with the clamp of the new value forgotten. *)
AdvancedSpineUnclamped(sp, i, noise, fire_count) ==
    [sp EXCEPT ![i + 1] = SpineOperator(i, sp[i + 1], sp[((i - 1) % 10) + 1],
                                        sp, noise, fire_count)]

(* AdvancedSpine with the new value also written to the next stage. *)
AdvancedSpineSpills(sp, i, noise, fire_count) ==
    LET new == SpineOperator(i, sp[i + 1], sp[((i - 1) % 10) + 1], sp,
                             noise, fire_count)
    IN  [sp EXCEPT ![i + 1] = Max(SpineMin, Min(SpineOne, new)),
                   ![((i + 1) % 10) + 1] = Max(SpineMin, Min(SpineOne, new))]

(* self.spine after _advance_spine(). *)
AdvancedSpine(sp, i, noise, fire_count) ==
    LET new == SpineOperator(i, sp[i + 1], sp[((i - 1) % 10) + 1], sp,
                             noise, fire_count)
    IN  [sp EXCEPT ![i + 1] = Max(SpineMin, Min(SpineOne, new))]

(* NextPhase with the wrong modulus. *)
NextPhaseNine(i) == (i + 1) % 9

(* self.spine_phase and self.epoch_count after _advance_spine() at stage i. *)
NextPhase(i) == (i + 1) % 10

NextEpoch(i, epoch) == IF NextPhase(i) = 0 THEN epoch + 1 ELSE epoch

(* LatticeRuntime._advance_spine(): the spine, the phase, the epoch count. *)
advance_spine(noise, fire_count) ==
    /\ spine' = AdvancedSpine(spine, spine_phase, noise, fire_count)
    /\ spine_phase' = NextPhase(spine_phase)
    /\ epoch_count' = NextEpoch(spine_phase, epoch_count)
    /\ spine_log' = LastN(Append(spine_log,
                                  << NextPhase(spine_phase),
                                     NextEpoch(spine_phase, epoch_count) >>),
                           scenario.log)

(* _advance_spine() from line 395 on, in a thread that has read i, prev   *)
(* and old (lines 391-393) some steps ago: the stage is computed from the  *)
(* values read then; sum(self.spine), the write of spine[i], of            *)
(* spine_phase and of epoch_count act on the spine as it is now.           *)
advance_spine_from(i, old, prev, noise, fire_count) ==
    LET new == SpineOperator(i, old, prev, spine, noise, fire_count)
    IN  /\ spine' = [spine EXCEPT ![i + 1] = Max(SpineMin, Min(SpineOne, new))]
        /\ spine_phase' = NextPhase(i)
        /\ epoch_count' = NextEpoch(i, epoch_count)
        /\ spine_log' = LastN(Append(spine_log,
                                      << NextPhase(i),
                                         NextEpoch(i, epoch_count) >>),
                               scenario.log)

(* ---------------------------------------------------------------------- *)
(* Inputs and bounds                                                      *)
(* ---------------------------------------------------------------------- *)

(* The number of calls in a run of the runtime that draws every input,     *)
(* and in a run that goes round the spine.                                 *)
MaxCalls == 4

MaxCycleCalls == 14

(* The number of calls the caller makes beside a heartbeat, and of tick()  *)
(* calls the heartbeat thread begins.                                      *)
MaxThreadCalls == 3

MaxBeats == 2

(* The number of op() calls in a run long enough for stage 3 to come as    *)
(* close to 1.0 as the arithmetic lets it.                                 *)
MaxLongCalls == 4220

(* The number of observe() calls in a run of a Triad tree alone: one that  *)
(* draws every value, and one long enough for a node and its child to      *)
(* both have a computed score.                                             *)
MaxObs == 5

MaxReports == 8

(* The number of wait() calls in a run of a Pulse alone, and how many      *)
(* wake-ups of a run may be late.                                          *)
MaxFires == 26

MaxLate == 1

(* The pulse rates a runtime is constructed with; BenchmarkHz is the rate  *)
(* of benchmark_raw_vs_lattice().                                          *)
BenchmarkHz == 10000

PulseRates == {-1000, 0, BenchmarkHz}

(* How far past the deadline the clock is when wait() reads t_end (ns). *)
Overshoot == {0, 200000}

(* The domain names op() is called with. *)
DomainNames == DomainSet \cup {"nonexistent"}

(* The work op() wraps: it returns result, or raises. *)
Works == { [result |-> "2", raises |-> None],
           [result |-> None, raises |-> "ValueError"] }

(* t1 - t0 around the work (ns). *)
ElapsedNs == {0, 3000}

(* The samples of random.gauss(0, 0.001) at stage 6, as spine values. *)
Noise == {-30, 0, 30}

(* The observations fed to a Triad tree alone (thousandths). *)
Values == {-1000, 1000, 2000, 3000}

(* What the calls of a run draw from: how many calls, how many late       *)
(* wake-ups of the pulse among them, and the inputs.                       *)
(* Every: each input of op() and tick() from its whole set, a short run.   *)
Every ==
    [ calls |-> MaxCalls, log |-> MaxCalls, late |-> MaxCalls,
      domains |-> DomainNames,
      works |-> Works, elapsed |-> ElapsedNs, overshoot |-> Overshoot,
      noise |-> Noise ]

(* Cycle: punctual ticks and op() calls that return, on two domains, in a  *)
(* run long enough to go round the spine.                                  *)
Cycle ==
    [ calls |-> MaxCycleCalls, log |-> MaxCycleCalls, late |-> 0,
      domains |-> {"compute", "net"},
      works |-> {w \in Works : w.raises = None}, elapsed |-> {3000},
      overshoot |-> {0}, noise |-> Noise ]

(* Threads: the caller's calls and the heartbeat's ticks, interleaved. *)
Threads ==
    [ calls |-> MaxThreadCalls, log |-> MaxThreadCalls + MaxBeats,
      beats |-> MaxBeats, late |-> 0,
      domains |-> {"compute"}, works |-> Works, elapsed |-> {3000},
      overshoot |-> {0}, noise |-> {0} ]

(* Long: op() calls that return, on one domain, without noise: one run,    *)
(* hundreds of times round the spine.                                      *)
Long ==
    [ calls |-> MaxLongCalls, log |-> 0, late |-> 0, domains |-> {"compute"},
      works |-> {w \in Works : w.raises = None}, elapsed |-> {3000},
      overshoot |-> {0}, noise |-> {0} ]

(* Window: every value, on a Triad tree alone, a short run. *)
Window == [ calls |-> MaxObs, values |-> Values ]

(* Reports: two values, on a Triad tree alone, a long run. *)
Reports == [ calls |-> MaxReports, values |-> {1000, 3000} ]

(* Beats: a Pulse alone, few late wake-ups, a run long enough to lock. *)
Beats == [ calls |-> MaxFires, late |-> MaxLate, overshoot |-> Overshoot ]

(* ---------------------------------------------------------------------- *)
(* The calls                                                              *)
(* ---------------------------------------------------------------------- *)

(* What is recorded of a call: arg and value are its inputs, result and    *)
(* raises what the wrapped work does, returned and raised how it ended.    *)
Call(name, arg, value, work, returned, raised) ==
    [ call |-> name, n |-> calls + 1, arg |-> arg, value |-> value,
      result |-> work.result, raises |-> work.raises,
      returned |-> returned, raised |-> raised ]

NoWork == [result |-> None, raises |-> None]

NoCall ==
    [ call |-> None, n |-> 0, arg |-> None, value |-> 0,
      result |-> None, raises |-> None, returned |-> None, raised |-> None ]

(* The local variables of op() and tick(), before the call assigns them. *)
NoFrame ==
    [ domain |-> None, work |-> NoWork, spine_val |-> 0, elapsed |-> 0,
      coherence |-> 0, i |-> 0, old |-> 0, prev |-> 0 ]

(* The samples a stage draws: only stage 6 calls random.gauss. *)
NoiseAt(i) == IF i = 6 THEN scenario.noise ELSE {0}

(* How late a wake-up may be, given the late wake-ups so far. *)
OvershootNow == IF nlate < scenario.late THEN scenario.overshoot ELSE {0}

LateCount(overshoot) == IF overshoot > 0 THEN nlate + 1 ELSE nlate

(* The triads after the two observe() calls of op(). *)
OpObserve(T, domain, elapsed_us, spine_val) ==
    LET T1 == IF domain \in DomainSet
              THEN observe(T, MicroName(domain), elapsed_us) ELSE T
    IN  IF domain \in DomainSet
        THEN observe(T1, Upper(domain), (elapsed_us * spine_val) \div SpineOne)
        ELSE T1

(* CountOp with the increment lost. *)
CountOpStale(by_domain, domain) ==
    DictSet(by_domain, domain,
            IF domain \in DOMAIN by_domain THEN by_domain[domain] ELSE 0)

(* CountOp that counts the domains of the runtime only. *)
CountOpKnown(by_domain, domain) ==
    IF domain \in DOMAIN by_domain
    THEN DictSet(by_domain, domain, by_domain[domain] + 1)
    ELSE by_domain

(* self.ops_by_domain[domain] = self.ops_by_domain.get(domain, 0) + 1. *)
CountOp(by_domain, domain) ==
    DictSet(by_domain, domain,
            (IF domain \in DOMAIN by_domain THEN by_domain[domain] ELSE 0) + 1)

(* LatticeRuntime.op(domain, work), the work returning normally after      *)
(* elapsed ns.                                                             *)
OpReturns(domain, work, elapsed, noise) ==
    /\ work.raises = None
    /\ ops_total' = ops_total + 1
    /\ ops_by_domain' = CountOp(ops_by_domain, domain)
    /\ triads' = OpObserve(triads, domain, elapsed, spine[spine_phase + 1])
    /\ advance_spine(noise, pulse.fire_count)
    /\ last' = Call("op", domain, elapsed, work, work.result, None)
    /\ UNCHANGED << pulse >>

(* LatticeRuntime.op(domain, work), the work raising: the exception leaves *)
(* op() at line 450, before t1 is read.                                    *)
OpRaises(domain, work) ==
    /\ work.raises # None
    /\ ops_total' = ops_total + 1
    /\ ops_by_domain' = CountOp(ops_by_domain, domain)
    /\ last' = Call("op", domain, 0, work, None, work.raises)
    /\ UNCHANGED << pulse, triads, spine, spine_phase, epoch_count, spine_log >>

Op ==
    /\ constructed
    /\ calls < scenario.calls
    /\ \E domain \in scenario.domains, work \in scenario.works :
         \/ \E elapsed \in scenario.elapsed, noise \in NoiseAt(spine_phase) :
              OpReturns(domain, work, elapsed, noise)
         \/ OpRaises(domain, work)
    /\ calls' = calls + 1
    /\ UNCHANGED << constructed, nlate, scenario >>
    /\ UNCHANGED aside

(* The value tick() feeds the epoch triad: the coherence, in thousandths. *)
ScoreAsValue(score) == score \div (ScoreOne \div Milli)

(* LatticeRuntime.tick(). *)
Tick ==
    /\ constructed
    /\ calls < scenario.calls
    /\ \E overshoot \in OvershootNow, noise \in NoiseAt(spine_phase) :
         /\ pulse' = Pulse_wait(pulse, overshoot)
         /\ advance_spine(noise, pulse'.fire_count)
         /\ triads' = observe(triads, "EPOCH", ScoreAsValue(pulse'.coherence))
         /\ last' = Call("tick", None, overshoot, NoWork, "dict", None)
         /\ nlate' = LateCount(overshoot)
    /\ calls' = calls + 1
    /\ UNCHANGED << constructed, ops_total, ops_by_domain, scenario >>
    /\ UNCHANGED aside

(* LatticeRuntime(pulse_hz): Pulse.__init__ raises on 1e9 / 0. *)
New ==
    /\ ~constructed
    /\ calls < scenario.calls
    /\ \E pulse_hz \in PulseRates :
         IF pulse_hz = 0
         THEN /\ last' = Call("LatticeRuntime", None, pulse_hz, NoWork,
                              None, "ZeroDivisionError")
              /\ UNCHANGED << constructed, pulse, triads, spine, spine_phase,
                              ops_total, ops_by_domain, epoch_count >>
         ELSE /\ constructed' = TRUE
              /\ pulse' = Pulse_init(pulse_hz)
              /\ triads' = RuntimeTree
              /\ spine' = [i \in 1..10 |-> TStarSpine]
              /\ spine_phase' = 0
              /\ ops_total' = 0
              /\ ops_by_domain' = [d \in DomainSet |-> 0]
              /\ epoch_count' = 0
              /\ last' = Call("LatticeRuntime", None, pulse_hz, NoWork,
                              "runtime", None)
    /\ calls' = calls + 1
    /\ UNCHANGED << spine_log, nlate, scenario >>
    /\ UNCHANGED aside

(* round(score, 6), in millionths: a score is a multiple of 1/ScoreOne. *)
Round6(score) ==
    (score + (ScoreOne \div Million) \div 2) \div (ScoreOne \div Million)

(* Triad.health: the label of a blended score. *)
Health(s) ==
    CASE s >= 950 * (ScoreOne \div Milli) -> "CRYSTALLINE"
      [] s >= 900 * (ScoreOne \div Milli) -> "OPTIMAL"
      [] s >= 800 * (ScoreOne \div Milli) -> "COHERENT"
      [] s >= TStarScore -> "STABLE"
      [] s >= 500 * (ScoreOne \div Milli) -> "DEGRADED"
      [] s >= 250 * (ScoreOne \div Milli) -> "CRITICAL"
      [] OTHER -> "COLLAPSED"

(* The dict status() returns: scores and spine values rounded to six       *)
(* decimals (in millionths), the frequency to two (in hundredths of a Hz). *)
StatusDict ==
    [ ops_total |-> ops_total,
      ops_by_domain |-> ops_by_domain,
      epoch |-> epoch_count,
      pulse_locked |-> pulse.lock_achieved,
      pulse_coherence |-> Round6(pulse.coherence),
      pulse_natural_hz |-> (pulse.natural_freq + 5) \div 10,
      spine |-> [i \in 1..10 |-> spine[i] * (Million \div SpineOne)],
      spine_phase |-> spine_phase,
      system_s_star |-> Round6(triads["SYSTEM"].macro_s_star),
      system_health |-> Health(triads["SYSTEM"].macro_s_star),
      domain_health |->
          [d \in DomainSet |->
              [ s_star |-> Round6(triads[Upper(d)].macro_s_star),
                health |-> Health(triads[Upper(d)].macro_s_star),
                ops |-> triads[Upper(d)].count ]] ]

(* Status with the query counted as an operation. *)
StatusCounted ==
    /\ constructed
    /\ calls < scenario.calls
    /\ ops_total' = ops_total + 1
    /\ snapshot' = << [StatusDict EXCEPT !.ops_total = ops_total + 1] >>
    /\ last' = Call("status", None, 0, NoWork, "dict", None)
    /\ calls' = calls + 1
    /\ UNCHANGED << constructed, pulse, triads, spine, spine_phase,
                    ops_by_domain, epoch_count, spine_log, nlate, scenario,
                    running, pc, frame, nbeats, stopped, engine >>

(* LatticeRuntime.status(). *)
Status ==
    /\ constructed
    /\ calls < scenario.calls
    /\ snapshot' = << StatusDict >>
    /\ last' = Call("status", None, 0, NoWork, "dict", None)
    /\ calls' = calls + 1
    /\ UNCHANGED << constructed, pulse, triads, spine, spine_phase, ops_total,
                    ops_by_domain, epoch_count, spine_log, nlate, scenario,
                    running, pc, frame, nbeats, stopped, engine >>

(* ---------------------------------------------------------------------- *)
(* The heartbeat: tick() and op() statement by statement, on two threads  *)
(* ---------------------------------------------------------------------- *)

(* The caller's thread and the thread start_heartbeat() starts.  A thread  *)
(* may be switched out between any two statements; each statement of op()  *)
(* and tick() below, with the calls it makes, is taken as one step.        *)
ThreadNames == {"caller", "beat", "beat2"}

(* The threads start_heartbeat() makes: the first call makes beat, the     *)
(* second beat2.                                                           *)
Heartbeats == << "beat", "beat2" >>

(* How many threads start_heartbeat() has made. *)
Started == Cardinality({k \in DOMAIN Heartbeats : pc[Heartbeats[k]] # None})

(* self._heartbeat_thread: the thread the latest start_heartbeat() made. *)
heartbeat_thread == IF Started = 0 THEN None ELSE Heartbeats[Started]

(* Where a thread is when the call it was in has returned. *)
Returned(t) == IF t = "caller" THEN "idle" ELSE "while"

(* What the caller's thread records when its call returns; the heartbeat   *)
(* thread drops the dict tick() returns.                                   *)
CallerReturns(t, record) ==
    IF t = "caller" THEN last' = [record EXCEPT !.n = last.n + 1]
    ELSE last' = last

(* start_heartbeat(): self.running = True, and a new thread that runs     *)
(* _beat() is made and started, whether or not an earlier one is alive.    *)
StartHeartbeat ==
    /\ constructed
    /\ pc.caller = "idle"
    /\ Started < Len(Heartbeats)
    /\ calls < scenario.calls
    /\ running' = TRUE
    /\ pc' = [pc EXCEPT ![Heartbeats[Started + 1]] = "while"]
    /\ stopped' = FALSE
    /\ CallerReturns("caller", Call("start_heartbeat", None, 0, NoWork, None, None))
    /\ calls' = calls + 1
    /\ UNCHANGED << constructed, pulse, triads, spine, spine_phase, ops_total,
                    ops_by_domain, epoch_count, spine_log, nlate, scenario,
                    frame, nbeats, snapshot, engine >>

(* _beat(): the test of "while self.running", then the call of tick() or   *)
(* the end of the thread.                                                  *)
BeatLoop ==
    /\ \E b \in ThreadNames \ {"caller"} :
         /\ pc[b] = "while"
         /\ pc' = [pc EXCEPT ![b] = IF running THEN "tick_wait" ELSE "finished"]
    /\ running => nbeats < scenario.beats
    /\ nbeats' = IF running THEN nbeats + 1 ELSE nbeats
    /\ UNCHANGED << constructed, pulse, triads, spine, spine_phase, ops_total,
                    ops_by_domain, epoch_count, last, spine_log, calls, nlate,
                    scenario, running, frame, stopped, snapshot, engine >>

(* The caller calls tick(). *)
CallTick ==
    /\ constructed
    /\ pc.caller = "idle"
    /\ calls < scenario.calls
    /\ pc' = [pc EXCEPT !.caller = "tick_wait"]
    /\ calls' = calls + 1
    /\ UNCHANGED << constructed, pulse, triads, spine, spine_phase, ops_total,
                    ops_by_domain, epoch_count, last, spine_log, nlate,
                    scenario, running, frame, nbeats, stopped, snapshot, engine >>

(* tick(), line 474: pulse_data = self.pulse.wait(). *)
TickWait ==
    \E t \in ThreadNames :
        /\ pc[t] = "tick_wait"
        /\ \E overshoot \in OvershootNow :
             /\ pulse' = Pulse_wait(pulse, overshoot)
             /\ nlate' = LateCount(overshoot)
        /\ frame' = [frame EXCEPT ![t].coherence = pulse'.coherence]
        /\ pc' = [pc EXCEPT ![t] = "tick_advance"]
        /\ UNCHANGED << constructed, triads, spine, spine_phase, ops_total,
                        ops_by_domain, epoch_count, last, spine_log, calls,
                        scenario, running, nbeats, stopped, snapshot, engine >>

(* _advance_spine(), lines 391-393, called by tick() (line 475) or by     *)
(* op() (line 465): the thread reads i, prev and old.  No lock is held,    *)
(* so the other thread may run before the writes of lines 395-424.         *)
AdvanceRead ==
    \E t \in ThreadNames :
        /\ pc[t] \in {"tick_advance", "op_advance"}
        /\ frame' = [frame EXCEPT ![t].i = spine_phase,
                                  ![t].old = spine[spine_phase + 1],
                                  ![t].prev = spine[((spine_phase - 1) % 10) + 1]]
        /\ pc' = [pc EXCEPT ![t] = IF pc[t] = "tick_advance"
                                   THEN "tick_write" ELSE "op_write"]
        /\ UNCHANGED << constructed, pulse, triads, spine, spine_phase,
                        ops_total, ops_by_domain, epoch_count, last, spine_log,
                        calls, nlate, scenario, running, nbeats, stopped,
                        snapshot, engine >>

(* tick(), line 475: the rest of self._advance_spine(). *)
TickAdvance ==
    \E t \in ThreadNames :
        /\ pc[t] = "tick_write"
        /\ \E noise \in NoiseAt(frame[t].i) :
             advance_spine_from(frame[t].i, frame[t].old, frame[t].prev,
                                noise, pulse.fire_count)
        /\ pc' = [pc EXCEPT ![t] = "tick_feed"]
        /\ UNCHANGED << constructed, pulse, triads, ops_total, ops_by_domain,
                        last, calls, nlate, scenario, running, frame, nbeats,
                        stopped, snapshot, engine >>

(* tick(), lines 478-487: self.epoch.observe(pulse_data['coherence']) and  *)
(* the return.                                                             *)
TickFeed ==
    \E t \in ThreadNames :
        /\ pc[t] = "tick_feed"
        /\ triads' = observe(triads, "EPOCH", ScoreAsValue(frame[t].coherence))
        /\ frame' = [frame EXCEPT ![t] = NoFrame]
        /\ pc' = [pc EXCEPT ![t] = Returned(t)]
        /\ CallerReturns(t, Call("tick", None, 0, NoWork, "dict", None))
        /\ UNCHANGED << constructed, pulse, spine, spine_phase, ops_total,
                        ops_by_domain, epoch_count, spine_log, calls, nlate,
                        scenario, running, nbeats, stopped, snapshot, engine >>

(* op(), lines 442-446: the two counts and spine_val. *)
OpEnter ==
    /\ constructed
    /\ pc.caller = "idle"
    /\ calls < scenario.calls
    /\ \E domain \in scenario.domains, work \in scenario.works :
         /\ ops_total' = ops_total + 1
         /\ ops_by_domain' = CountOp(ops_by_domain, domain)
         /\ frame' = [frame EXCEPT !.caller =
                        [NoFrame EXCEPT !.domain = domain, !.work = work,
                                        !.spine_val = spine[spine_phase + 1]]]
    /\ pc' = [pc EXCEPT !.caller = "op_work"]
    /\ calls' = calls + 1
    /\ UNCHANGED << constructed, pulse, triads, spine, spine_phase,
                    epoch_count, last, spine_log, nlate, scenario, running,
                    nbeats, stopped, snapshot, engine >>

(* op(), lines 449-453: the work runs between two readings of the clock,   *)
(* or raises and leaves op().                                              *)
OpWork ==
    /\ pc.caller = "op_work"
    /\ IF frame.caller.work.raises # None
       THEN /\ frame' = [frame EXCEPT !.caller = NoFrame]
            /\ pc' = [pc EXCEPT !.caller = "idle"]
            /\ CallerReturns("caller",
                   Call("op", frame.caller.domain, 0, frame.caller.work,
                        None, frame.caller.work.raises))
       ELSE /\ \E elapsed \in scenario.elapsed :
                 frame' = [frame EXCEPT !.caller.elapsed = elapsed]
            /\ pc' = [pc EXCEPT !.caller = "op_feed"]
            /\ last' = last
    /\ UNCHANGED << constructed, pulse, triads, spine, spine_phase, ops_total,
                    ops_by_domain, epoch_count, spine_log, calls, nlate,
                    scenario, running, nbeats, stopped, snapshot, engine >>

(* op(), lines 455-462: the two observe() calls. *)
OpFeed ==
    /\ pc.caller = "op_feed"
    /\ triads' = OpObserve(triads, frame.caller.domain, frame.caller.elapsed,
                           frame.caller.spine_val)
    /\ pc' = [pc EXCEPT !.caller = "op_advance"]
    /\ UNCHANGED << constructed, pulse, spine, spine_phase, ops_total,
                    ops_by_domain, epoch_count, last, spine_log, calls, nlate,
                    scenario, running, frame, nbeats, stopped, snapshot, engine >>

(* op(), lines 465-467: the rest of self._advance_spine() and the        *)
(* return.                                                                 *)
OpLeave ==
    /\ pc.caller = "op_write"
    /\ \E noise \in NoiseAt(frame.caller.i) :
         advance_spine_from(frame.caller.i, frame.caller.old,
                            frame.caller.prev, noise, pulse.fire_count)
    /\ frame' = [frame EXCEPT !.caller = NoFrame]
    /\ pc' = [pc EXCEPT !.caller = "idle"]
    /\ CallerReturns("caller",
           Call("op", frame.caller.domain, frame.caller.elapsed,
                frame.caller.work, frame.caller.work.result, None))
    /\ UNCHANGED << constructed, pulse, triads, ops_total, ops_by_domain,
                    calls, nlate, scenario, running, nbeats, stopped,
                    snapshot, engine >>

(* stop_heartbeat(), lines 500-501: self.running = False; without a thread *)
(* the call returns.                                                       *)
StopHeartbeat ==
    /\ constructed
    /\ pc.caller = "idle"
    /\ calls < scenario.calls
    /\ running' = FALSE
    /\ IF heartbeat_thread # None
       THEN /\ pc' = [pc EXCEPT !.caller = "join"]
            /\ UNCHANGED << last, stopped >>
       ELSE /\ pc' = pc
            /\ stopped' = TRUE
            /\ CallerReturns("caller",
                   Call("stop_heartbeat", None, 0, NoWork, None, None))
    /\ calls' = calls + 1
    /\ UNCHANGED << constructed, pulse, triads, spine, spine_phase, ops_total,
                    ops_by_domain, epoch_count, spine_log, nlate, scenario,
                    frame, nbeats, snapshot, engine >>

(* The seconds stop_heartbeat() waits for the thread. *)
JoinTimeout == 1

(* stop_heartbeat(), line 502: self._heartbeat_thread.join(timeout=1)      *)
(* returns when the thread has ended, or when the timeout has passed with  *)
(* the thread still in the busy-wait of pulse.wait(), which lasts as long  *)
(* as the pulse rate makes it (2 s at 0.5 Hz).  The record keeps the       *)
(* seconds waited.                                                         *)
Join ==
    /\ pc.caller = "join"
    /\ \E waited \in {0, JoinTimeout} :
         /\ waited < JoinTimeout => pc[heartbeat_thread] = "finished"
         /\ waited >= JoinTimeout => pc[heartbeat_thread] = "tick_wait"
         /\ CallerReturns("caller",
                Call("stop_heartbeat", None, waited, NoWork, None, None))
    /\ pc' = [pc EXCEPT !.caller = "idle"]
    /\ stopped' = TRUE
    /\ UNCHANGED << constructed, pulse, triads, spine, spine_phase, ops_total,
                    ops_by_domain, epoch_count, spine_log, calls, nlate,
                    scenario, running, frame, nbeats, snapshot, engine >>

(* Triad.observe(value) on a node of a tree that stands alone. *)
Observe ==
    /\ ~constructed
    /\ calls < scenario.calls
    /\ \E n \in DOMAIN triads, value \in scenario.values :
         /\ triads' = observe(triads, n, value)
         /\ last' = Call("observe", n, value, NoWork, "dict", None)
    /\ calls' = calls + 1
    /\ UNCHANGED << constructed, pulse, spine, spine_phase, ops_total,
                    ops_by_domain, epoch_count, spine_log, nlate, scenario >>
    /\ UNCHANGED aside

(* Pulse.wait() on a Pulse that stands alone. *)
Wait ==
    /\ ~constructed
    /\ calls < scenario.calls
    /\ \E overshoot \in OvershootNow :
         /\ pulse' = Pulse_wait(pulse, overshoot)
         /\ last' = Call("wait", None, overshoot, NoWork, "dict", None)
         /\ nlate' = LateCount(overshoot)
    /\ calls' = calls + 1
    /\ UNCHANGED << constructed, triads, spine, spine_phase, ops_total,
                    ops_by_domain, epoch_count, spine_log, scenario >>
    /\ UNCHANGED aside

(* ---------------------------------------------------------------------- *)
(* Specifications                                                         *)
(* ---------------------------------------------------------------------- *)

(* No runtime yet. *)
Unbuilt ==
    /\ constructed = FALSE
    /\ pulse = None
    /\ triads = EmptyDict
    /\ spine = << >>
    /\ spine_phase = 0
    /\ ops_total = 0
    /\ ops_by_domain = EmptyDict
    /\ epoch_count = 0

Fresh ==
    /\ last = NoCall
    /\ spine_log = << >>
    /\ calls = 0
    /\ nlate = 0
    /\ running = FALSE
    /\ pc = [caller |-> "idle", beat |-> None, beat2 |-> None]
    /\ frame = [caller |-> NoFrame, beat |-> NoFrame, beat2 |-> NoFrame]
    /\ nbeats = 0
    /\ stopped = FALSE
    /\ snapshot = << >>
    /\ engine = [tick |-> 0, triad_count |-> 0]

(* The state LatticeRuntime(pulse_hz=10000), the runtime of the           *)
(* benchmark, is constructed in.                                           *)
Built ==
    /\ constructed = TRUE
    /\ pulse = Pulse_init(BenchmarkHz)
    /\ triads = RuntimeTree
    /\ spine = [i \in 1..10 |-> TStarSpine]
    /\ spine_phase = 0
    /\ ops_total = 0
    /\ ops_by_domain = [d \in DomainSet |-> 0]
    /\ epoch_count = 0

Init == Built /\ Fresh /\ scenario = Every

Next == Op \/ Tick

Spec == Init /\ [][Next]_vars

(* Construction, then the calls. *)
InitNew == Unbuilt /\ Fresh /\ scenario = Every

NextNew == New \/ Op \/ Tick

SpecNew == InitNew /\ [][NextNew]_vars

(* The runtime of the benchmark, round the spine. *)
InitCycle == Built /\ Fresh /\ scenario = Cycle

NextCycle == Op \/ Tick

SpecCycle == InitCycle /\ [][NextCycle]_vars

(* The runtime of the benchmark, queried between the calls. *)
InitStatus == Built /\ Fresh /\ scenario = Every

NextStatus == Op \/ Tick \/ Status

SpecStatus == InitStatus /\ [][NextStatus]_vars

(* The runtime of the benchmark with its heartbeat: two threads. *)
InitThreads == Built /\ Fresh /\ scenario = Threads

NextThreads ==
    \/ StartHeartbeat
    \/ BeatLoop
    \/ CallTick
    \/ TickWait
    \/ AdvanceRead
    \/ TickAdvance
    \/ TickFeed
    \/ OpEnter
    \/ OpWork
    \/ OpFeed
    \/ OpLeave
    \/ StopHeartbeat
    \/ Join

SpecThreads == InitThreads /\ [][NextThreads]_vars

(* The runtime of the benchmark, hundreds of times round the spine. *)
InitLong == Built /\ Fresh /\ scenario = Long

NextLong == Op

SpecLong == InitLong /\ [][NextLong]_vars

(* A tree or a pulse that stands alone: no runtime. *)
NoRuntime ==
    /\ constructed = FALSE
    /\ spine = << >>
    /\ spine_phase = 0
    /\ ops_total = 0
    /\ ops_by_domain = EmptyDict
    /\ epoch_count = 0

(* A Triad tree alone: P, its child A, and A's child L. *)
TriadTree ==
    Triad_init(Triad_init(Triad_init(EmptyDict, "P", None), "A", "P"), "L", "A")

InitTriad ==
    NoRuntime /\ pulse = None /\ triads = TriadTree /\ Fresh /\ scenario = Window

NextTriad == Observe

SpecTriad == InitTriad /\ [][NextTriad]_vars

InitReports ==
    NoRuntime /\ pulse = None /\ triads = TriadTree /\ Fresh /\ scenario = Reports

NextReports == Observe

SpecReports == InitReports /\ [][NextReports]_vars

(* A Pulse alone: Pulse(10000). *)
InitPulse ==
    /\ NoRuntime
    /\ pulse = Pulse_init(BenchmarkHz)
    /\ triads = EmptyDict
    /\ Fresh
    /\ scenario = Beats

NextPulse == Wait

SpecPulse == InitPulse /\ [][NextPulse]_vars

(* ---------------------------------------------------------------------- *)
(* Properties                                                             *)
(* ---------------------------------------------------------------------- *)

Nodes == DOMAIN triads

(* This step is a call of op(domain, work) on the runtime. *)
OpStep == last'.n # last.n /\ last'.call = "op"

(* Every node's observation count is left as it was. *)
CountsUnchanged == \A n \in Nodes : triads'[n].count = triads[n].count

(* C1: op() with a domain name that is not one of the runtime's domains,   *)
(* the work returning, returns the work's result and raises nothing,       *)
(* leaves ops_by_domain (keys and counts) and every node's count as they   *)
(* were, adds one to ops_total and advances the spine by one stage.        *)
C1_UnknownDomainNoOp ==
    [][ (OpStep /\ last'.arg \notin DomainSet /\ last'.raises = None)
        => /\ last'.returned = last'.result
           /\ last'.raised = None
           /\ ops_by_domain' = ops_by_domain
           /\ CountsUnchanged
           /\ ops_total' = ops_total + 1
           /\ spine_phase' = (spine_phase + 1) % 10 ]_vars

(* C2: if the work raises inside op() for a known domain, the same         *)
(* exception reaches the caller and the measurement was still recorded:    *)
(* the domain's micro node and domain node each count one more             *)
(* observation.                                                            *)
C2_RaisingWorkRecorded ==
    [][ (OpStep /\ last'.arg \in DomainSet /\ last'.raises # None)
        => /\ last'.raised = last'.raises
           /\ triads'[MicroName(last'.arg)].count
                = triads[MicroName(last'.arg)].count + 1
           /\ triads'[Upper(last'.arg)].count
                = triads[Upper(last'.arg)].count + 1 ]_vars

(* C3: op() on a known domain d, the work returning, returns the work's    *)
(* result, adds exactly one to ops_total and to ops_by_domain[d], changes  *)
(* no other domain's count, and moves spine_phase from i to (i + 1) mod 10. *)
C3_OpCountsAndAdvances ==
    [][ (OpStep /\ last'.arg \in DomainSet /\ last'.raises = None)
        => /\ last'.returned = last'.result
           /\ last'.raised = None
           /\ ops_total' = ops_total + 1
           /\ DOMAIN ops_by_domain' = DOMAIN ops_by_domain
           /\ \A d \in DOMAIN ops_by_domain :
                ops_by_domain'[d] = ops_by_domain[d]
                                    + (IF d = last'.arg THEN 1 ELSE 0)
           /\ spine_phase' = (spine_phase + 1) % 10 ]_vars

(* An op() has returned on a known domain at stage 9: the spine wrapped. *)
C3_Witness ==
    /\ last.call = "op"
    /\ last.arg = "net"
    /\ last.returned = "2"
    /\ ops_by_domain["net"] = 2
    /\ spine_phase = 0
    /\ epoch_count = 1

InUnit(score) == 0 <= score /\ score <= ScoreOne

(* C4: after every observe(), with the reports it sends up the tree, the   *)
(* own score and the blended score of every node are within [0, 1].        *)
C4_ScoresBounded ==
    \A n \in Nodes :
        /\ InUnit(triads[n].own_s_star)
        /\ InUnit(triads[n].own_s)
        /\ InUnit(triads[n].macro_s_star)

(* A leaf has a computed score from a negative mean, its parent has        *)
(* blended it with a score of its own, and the root has blended that.      *)
C4_Witness ==
    /\ triads["L"].micro_len >= MinSamples
    /\ triads["L"].self_ema < 0
    /\ triads["L"].own_s_star # TStarScore
    /\ triads["A"].count >= 1
    /\ triads["A"].child_coherences["L"] = triads["L"].macro_s_star
    /\ triads["A"].macro_s_star # TStarScore
    /\ triads["P"].macro_s_star # TStarScore

(* C5: ten advances of the spine, by any mix of tick() and op(), bring     *)
(* spine_phase back to where it was and add exactly one to epoch_count;    *)
(* epoch_count grows only on the advance from stage 9 to stage 0.          *)
C5_SpineCycleClosure ==
    LET at(k) == IF k = 0 THEN << 0, 0 >> ELSE spine_log[k]
        n == Len(spine_log)
    IN  /\ at(n) = << spine_phase, epoch_count >>
        /\ \A k \in 0..(n - 10) :
             /\ at(k + 10)[1] = at(k)[1]
             /\ at(k + 10)[2] = at(k)[2] + 1
        /\ \A k \in 1..n :
             at(k)[2] = at(k - 1)[2]
                        + (IF at(k - 1)[1] = 9 /\ at(k)[1] = 0 THEN 1 ELSE 0)

(* Fourteen advances, by ticks and by ops: four windows of ten. *)
C5_Witness ==
    /\ Len(spine_log) = 14
    /\ ops_total >= 3
    /\ pulse.fire_count >= 3
    /\ spine_phase = 4
    /\ epoch_count = 1

(* C6: once a wait() has set lock_achieved, it stays set, whatever         *)
(* coherence the later calls compute.                                      *)
C6_LockIsLatch ==
    [][ pulse.lock_achieved => pulse'.lock_achieved ]_vars

(* The pulse is locked and its coherence has fallen below T_STAR. *)
C6_Witness ==
    /\ pulse.lock_achieved
    /\ pulse.fire_count > CoherenceWindow
    /\ pulse.coherence < TStarScore

(* C7: a node p with exactly one child c, not observed itself in this step *)
(* nor since c's last report: when c's blended score moves by D, p's       *)
(* blended score moves by exactly D / 2.                                   *)
C7_LosslessHop ==
    [][ \A p \in Nodes :
          ( /\ Len(triads[p].children) = 1
            /\ triads[p].macro_by = "_receive_child_coherence"
            /\ triads'[p].count = triads[p].count )
          => LET c == triads[p].children[1]
             IN  2 * (triads'[p].macro_s_star - triads[p].macro_s_star)
                   = triads'[c].macro_s_star - triads[c].macro_s_star ]_vars

(* A, with a computed score of its own, has taken two reports of its only  *)
(* child L, the second of a score that differs from the first.             *)
C7_Witness ==
    /\ last.call = "observe"
    /\ last.arg = "L"
    /\ triads["A"].micro_len >= MinSamples
    /\ triads["A"].own_s # TStarScore
    /\ triads["L"].count = MinSamples
    /\ triads["L"].macro_s_star # TStarScore
    /\ triads["A"].child_coherences["L"] = triads["L"].macro_s_star

(* C8: the observe() that brings a node to fewer than 4 observations sets  *)
(* its own score to T_STAR, whatever the values; a node without reported   *)
(* children then has the blended score T_STAR too.                         *)
C8_DefaultBelowFourSamples ==
    \A n \in Nodes :
        (triads[n].count >= 1 /\ triads[n].count < 4)
        => /\ triads[n].own_s_star = TStarScore
           /\ DOMAIN triads[n].child_coherences = {}
                => triads[n].macro_s_star = TStarScore

(* A childless node has seen three observations that differ. *)
C8_Witness ==
    /\ triads["L"].count = 3
    /\ triads["L"].micro_buf = << 1000, 3000, -1000 >>
    /\ triads["L"].self_emv > 0

(* The last four observations of a node with at least four samples are     *)
(* monotonic.                                                              *)
MonotonicWindow(node) ==
    /\ node.micro_len >= 4
    /\ LET w == LastN(node.micro_buf, 4)
       IN  \/ \A i \in 1..3 : w[i] <= w[i + 1]
           \/ \A i \in 1..3 : w[i] >= w[i + 1]

(* vitality = 1 / (1 + cv) of a node, cv = sqrt(self_emv) / self_ema for a *)
(* positive mean and 1 otherwise.                                          *)
NodeVitality(node) ==
    LET cv == IF node.self_ema > 0
              THEN (Milli * ISqrt(node.self_emv)) \div node.self_ema
              ELSE Milli
    IN  Million \div (Milli + cv)

(* C9 as stated: with a monotonic window the own score is sigma * vitality *)
(* with sigma = 0.991.                                                     *)
C9_MonotoneSigmaVitality ==
    \A n \in Nodes :
        MonotonicWindow(triads[n])
        => triads[n].own_s_star
             = (SIGMA * NodeVitality(triads[n])) * (ScoreOne \div Million)

(* C9 as amended: with a monotonic window the own score is                 *)
(* FACTOR * vitality * 1.0, FACTOR = sigma * (1 - sigma_star) = 0.982081.  *)
C9_MonotoneFactorVitality ==
    \A n \in Nodes :
        MonotonicWindow(triads[n])
        => triads[n].own_s_star
             = ((982081 * NodeVitality(triads[n])) \div Milli)
               * (ScoreOne \div Million)

(* A node has seen four strictly increasing values, another four           *)
(* non-increasing ones with a repeat.                                      *)
C9_Witness ==
    \/ triads["L"].micro_buf = << -1000, 1000, 2000, 3000 >>
    \/ triads["L"].micro_buf = << 3000, 3000, 2000, 1000 >>

(* C10: constructing the runtime with a pulse rate that is zero or         *)
(* negative (or with no domain) fails with an error: no runtime exists     *)
(* whose pulse has a target interval <= 0, or that has no domain.          *)
C10_ConstructionFailsFast ==
    /\ (last.call = "LatticeRuntime" /\ last.value <= 0)
         => (last.raised # None /\ ~constructed)
    /\ constructed
         => (pulse.target_ns > 0 /\ DOMAIN ops_by_domain # {})

(* C11: in every state of the runtime, after any sequence of tick() and    *)
(* op() calls and whatever noise stage 6 draws, each of the 10 spine       *)
(* values is within [0.001, 1.0] and spine_phase is one of 0..9.           *)
C11_SpineBounded ==
    constructed
    => /\ Len(spine) = 10
       /\ \A i \in 1..10 : SpineMin <= spine[i] /\ spine[i] <= SpineOne
       /\ spine_phase \in 0..9

(* Stage 0 was clamped up to the minimum, and stage 6 has drawn the        *)
(* largest noise sample.                                                   *)
C11_Witness ==
    /\ Len(spine_log) >= 7
    /\ spine[1] = SpineMin
    /\ spine[7] = (TStarSpine * SIGMA) \div Milli + 30

(* C12: status() leaves ops_total, ops_by_domain, epoch_count, the spine   *)
(* and spine_phase, the pulse and every node of the tree as they were, and *)
(* a status() that follows a status() directly returns an equal dict.      *)
C12_StatusReadOnly ==
    [][ (last'.n # last.n /\ last'.call = "status")
        => /\ ops_total' = ops_total
           /\ ops_by_domain' = ops_by_domain
           /\ epoch_count' = epoch_count
           /\ spine' = spine
           /\ spine_phase' = spine_phase
           /\ pulse' = pulse
           /\ triads' = triads
           /\ last.call = "status" => snapshot' = snapshot ]_vars

(* Two status() calls in a row, after an op() and a tick() changed what    *)
(* the dict shows.                                                         *)
C12_Witness ==
    /\ last.call = "status"
    /\ last.n = 4
    /\ ops_total = 1
    /\ pulse.fire_count = 1
    /\ snapshot[1].ops_total = 1
    /\ snapshot[1].spine_phase = 2
    /\ snapshot[1].domain_health["compute"].ops = 1

(* A thread is inside tick() or op(): past the statement that makes the    *)
(* call's first access to the pulse, the spine or the tree, and before     *)
(* the one that makes its last.                                            *)
InBody(t) ==
    pc[t] \in {"tick_advance", "tick_write", "tick_feed", "op_work", "op_feed",
               "op_advance", "op_write"}

(* C13: while the heartbeat runs, the bodies of tick() and op() exclude    *)
(* each other: the heartbeat thread is never inside its tick() while the   *)
(* caller's thread is inside an op() or a tick().                          *)
C13_BodiesExclusive ==
    ~(InBody("caller") /\ InBody("beat"))

(* C14: once stop_heartbeat() has returned, the heartbeat thread has       *)
(* ended and takes no further step.                                        *)
C14_StopIsFinal ==
    [][ (stopped /\ stopped')
        => /\ pc.beat \in {None, "finished"}
           /\ pc'.beat = pc.beat ]_vars

(* C15: op() clamps the elapsed time it measured to a minimum positive     *)
(* value: no observation <= 0 enters a micro or a domain node, even when   *)
(* the two clock readings around the work are equal.                       *)
C15_ElapsedClamped ==
    constructed
    => \A d \in DomainSet : \A n \in {MicroName(d), Upper(d)} :
         \A k \in DOMAIN triads[n].micro_buf : triads[n].micro_buf[k] > 0

(* C16: a node whose blended score was last set by its own observe() has   *)
(* blended = (own + mean of the reported child scores) / 2 when at least   *)
(* one child has reported, however many have, and blended = own otherwise. *)
C16_BlendIsEvenSplit ==
    \A n \in Nodes :
        triads[n].macro_by = "observe"
        => LET scores == triads[n].child_coherences
               k == Cardinality(DOMAIN scores)
           IN  IF k >= 1
               THEN triads[n].macro_s_star
                      = (triads[n].own_s_star + DictSum(scores) \div k) \div 2
               ELSE triads[n].macro_s_star = triads[n].own_s_star

(* The epoch node was observed with two children reported, their mean      *)
(* away from its own score; a micro node was observed with none.           *)
C16_Witness ==
    /\ triads["EPOCH"].macro_by = "observe"
    /\ DOMAIN triads["EPOCH"].child_coherences = {"COMPUTE", "NET"}
    /\ triads["EPOCH"].child_coherences["COMPUTE"]
         # triads["EPOCH"].child_coherences["NET"]
    /\ triads["EPOCH"].own_s_star
         # triads["EPOCH"].child_coherences["NET"]
    /\ triads["net_micro"].macro_by = "observe"
    /\ DOMAIN triads["net_micro"].child_coherences = {}

(* The nodes above n in the tree. *)
RECURSIVE Ancestors(_)
Ancestors(n) ==
    IF triads[n].parent = None THEN {}
    ELSE {triads[n].parent} \cup Ancestors(triads[n].parent)

(* C17: a report from a child makes the node recompute its blended score   *)
(* from the updated child scores and the own score its last observe()      *)
(* computed; so a report that leaves the child scores as they were leaves  *)
(* the blended score what that observe() produced.                         *)
C17_ReportUsesCachedOwn ==
    [][ (last'.n # last.n /\ last'.call = "observe")
        => \A p \in Ancestors(last'.arg) :
             LET scores == triads'[p].child_coherences
                 k == Cardinality(DOMAIN scores)
             IN  /\ triads'[p].macro_s_star
                      = (triads[p].own_s_star + DictSum(scores) \div k) \div 2
                 /\ (scores = triads[p].child_coherences
                       /\ triads[p].macro_by = "observe")
                    => triads'[p].macro_s_star = triads[p].macro_s_star ]_vars

(* C18: after any observe() on the runtime tree has returned, every node   *)
(* on the path from the observed node to the root that has a parent is     *)
(* stored in its parent's child scores with its current blended score, up  *)
(* to the root, whose blended score is the mean of T_STAR (it is never     *)
(* observed itself) and the epoch node's current blended score.            *)
C18_PropagationImmediate ==
    constructed
    => /\ \A n \in Nodes :
            (triads[n].macro_by # "__init__" /\ triads[n].parent # None)
            => /\ n \in DOMAIN triads[triads[n].parent].child_coherences
               /\ triads[triads[n].parent].child_coherences[n]
                    = triads[n].macro_s_star
               /\ triads[triads[n].parent].macro_by = "_receive_child_coherence"
                  \/ triads[triads[n].parent].macro_by = "observe"
       /\ triads["EPOCH"].macro_by # "__init__"
            => triads["SYSTEM"].macro_s_star
                 = (TStarScore + triads["EPOCH"].macro_s_star) \div 2

(* An op() fed a micro node its fourth sample: its score moved away from   *)
(* T_STAR, and so did the root's within the call.                          *)
C18_Witness ==
    /\ last.call = "op"
    /\ last.arg = "compute"
    /\ triads["compute_micro"].count = MinSamples
    /\ triads["compute_micro"].macro_s_star # TStarScore
    /\ triads["EPOCH"].count = 0
    /\ triads["SYSTEM"].macro_s_star # TStarScore
    /\ triads["SYSTEM"].child_coherences["EPOCH"] = triads["EPOCH"].macro_s_star

(* C19: tick() fires the pulse exactly once, feeds the epoch node exactly  *)
(* one observation, the pulse's coherence, moves spine_phase on by one     *)
(* (mod 10), and leaves ops_total, ops_by_domain and the observation count *)
(* of every domain and micro node as they were.                            *)
C19_TickFrame ==
    [][ (last'.n # last.n /\ last'.call = "tick")
        => /\ pulse'.fire_count = pulse.fire_count + 1
           /\ triads'["EPOCH"].count = triads["EPOCH"].count + 1
           /\ triads'["EPOCH"].micro_buf
                = Append(triads["EPOCH"].micro_buf,
                         pulse'.coherence \div (ScoreOne \div Milli))
           /\ spine_phase' = (spine_phase + 1) % 10
           /\ ops_total' = ops_total
           /\ ops_by_domain' = ops_by_domain
           /\ \A d \in DomainSet :
                /\ triads'[Upper(d)].count = triads[Upper(d)].count
                /\ triads'[MicroName(d)].count = triads[MicroName(d)].count ]_vars

(* A tick() after ops and ticks took the spine from stage 9 to stage 0. *)
C19_Witness ==
    /\ last.call = "tick"
    /\ triads["EPOCH"].count >= 2
    /\ triads["COMPUTE"].count >= 1
    /\ ops_total >= 1
    /\ spine_phase = 0
    /\ epoch_count = 1

(* C20: in every result wait() returns, a coherence at or above T_STAR     *)
(* comes with locked = true, the firings before 16 samples included.       *)
C20_CoherentImpliesLocked ==
    last.call = "wait"
    => (pulse.coherence >= TStarScore => pulse.lock_achieved)

(* C21: natural_freq is written at most once after construction: the       *)
(* wait() that first sets lock_achieved sets it to 1e9 / ema_actual, and   *)
(* every other wait(), before or after, leaves it as it was.               *)
C21_FrequencyWrittenOnce ==
    [][ IF ~pulse.lock_achieved /\ pulse'.lock_achieved
        THEN LET ns == pulse'.ema_actual \div Milli
             IN  pulse'.natural_freq
                   = (Billion \div ns) * Milli + ((Billion % ns) * Milli) \div ns
        ELSE pulse'.natural_freq = pulse.natural_freq ]_vars

(* The pulse locked at a frequency other than the one it was built with,   *)
(* and has fired again since, coherent, with another smoothed interval.    *)
C21_Witness ==
    /\ pulse.lock_achieved
    /\ pulse.natural_freq # BenchmarkHz * Milli
    /\ pulse.coherence >= TStarScore
    /\ pulse.natural_freq
         # (Billion \div (pulse.ema_actual \div Milli)) * Milli
           + ((Billion % (pulse.ema_actual \div Milli)) * Milli)
               \div (pulse.ema_actual \div Milli)

(* This step advances the spine: every advance moves spine_phase. *)
SpineStep == spine_phase' # spine_phase

(* The rule of stage i on the spine sp, by stage: what it reads is         *)
(* sp[i], sp[(i - 1) mod 10], for stage 5 the mean of sp, for stage 6 the  *)
(* noise sample and for stage 8 the pulse's fire count.                    *)
StageRule(i, sp, noise, fires) ==
    LET old == sp[i + 1]
        prev == sp[((i + 9) % 10) + 1]
        sigma == 991
        rest == 1000 - 991
    IN  CASE i = 0 -> ((prev * rest) \div 1000) \div 10
          [] i = 1 -> (old * sigma + prev * rest) \div 1000
          [] i = 2 -> ((IF old >= prev THEN old - prev ELSE prev - old) * sigma
                       + old * rest) \div 1000
          [] i = 3 -> old + ((SpineOne - old) * rest) \div 1000
          [] i = 4 -> (old * sigma) \div 1000
          [] i = 5 -> (old + SumSeq(sp) \div 10) \div 2
          [] i = 6 -> (old * sigma) \div 1000 + noise
          [] i = 7 -> ISqrt(IF old * prev >= SpineMin * SpineOne
                            THEN old * prev ELSE SpineMin * SpineOne)
          [] i = 8 -> old + (old * 5 * SinTable[fires + 1]) \div 1000000
          [] i = 9 -> (old * sigma + TStarSpine * rest) \div 1000

(* C22: one advance at stage i leaves the nine other spine entries as they *)
(* were, and the new spine[i] is the stage's rule applied to the old       *)
(* spine (with a noise sample at stage 6 and the fire count at stage 8),   *)
(* clamped.                                                                *)
C22_AdvanceWritesOneStage ==
    [][ SpineStep
        => LET i == spine_phase
           IN  /\ \A j \in 0..9 : j # i => spine'[j + 1] = spine[j + 1]
               /\ \E noise \in (IF i = 6 THEN Noise ELSE {0}) :
                    LET new == StageRule(i, spine, noise, pulse'.fire_count)
                    IN  spine'[i + 1]
                          = (IF new < SpineMin THEN SpineMin
                             ELSE IF new > SpineOne THEN SpineOne ELSE new) ]_vars

(* Stage 5 and stage 8 were both applied, by ticks and by ops. *)
C22_Witness ==
    /\ Len(spine_log) >= 9
    /\ spine_phase = 9
    /\ pulse.fire_count >= 2
    /\ ops_total >= 2
    /\ spine[6] # TStarSpine
    /\ spine[9] # TStarSpine

C24_Stage0Grounded ==
    (constructed /\ Len(spine_log) >= 1)
    => /\ spine[1] < SpineOne \div 100
       /\ spine[1] = SpineOne \div 1000

(* Stage 0 has been applied a second time, after a round of the spine     *)
(* moved the other stages.                                                 *)
C24_Witness ==
    /\ spine_phase = 1
    /\ epoch_count = 1
    /\ spine[2] # TStarSpine
    /\ spine[1] = SpineOne \div 1000

(* The number of adjacent pairs among the 3 differences of the node's last *)
(* 4 observations whose signs agree (a difference counts as positive when  *)
(* it is >= 0).                                                            *)
AgreeingPairs(node) ==
    LET w == LastN(node.micro_buf, 4)
        up(i) == w[i + 1] - w[i] >= 0
    IN  (IF up(1) = up(2) THEN 1 ELSE 0) + (IF up(2) = up(3) THEN 1 ELSE 0)

(* The own score of a node for the alignment a (thousandths). *)
OwnScoreFor(node, a) ==
    ((((982081 * NodeVitality(node)) \div 1000) * a) \div 1000)
    * (ScoreOne \div 1000000)

(* C25 as stated: with at least 4 samples and a window that is not         *)
(* monotonic, the alignment is the agreeing adjacent pairs divided by the  *)
(* number of adjacent pairs (2), within [0, 1].                            *)
C25_AlignmentPairFraction ==
    \A n \in Nodes :
        (triads[n].micro_len >= 4 /\ ~MonotonicWindow(triads[n]))
        => LET a == (AgreeingPairs(triads[n]) * 1000) \div 2
           IN  /\ 0 <= a /\ a <= 1000
               /\ triads[n].own_s_star = OwnScoreFor(triads[n], a)

(* C25 as amended: the alignment is (agreeing adjacent pairs + 1) divided  *)
(* by the number of differences (3): 1/3 or 2/3.                           *)
C25_AlignmentAgreeingPlusOne ==
    \A n \in Nodes :
        (triads[n].micro_len >= 4 /\ ~MonotonicWindow(triads[n]))
        => LET a == ((AgreeingPairs(triads[n]) + 1) * 1000) \div 3
           IN  /\ a \in {333, 666}
               /\ triads[n].own_s_star = OwnScoreFor(triads[n], a)

(* A node has seen a window that zigzags (no pair agrees), another a       *)
(* window that rises twice and falls (one pair agrees).                    *)
C25_Witness ==
    \/ triads["L"].micro_buf = << 1000, 3000, 2000, 3000 >>
    \/ triads["L"].micro_buf = << 1000, 2000, 3000, 1000 >>

(* ---------------------------------------------------------------------- *)
(* The physics engine of src/tig_physics_test.py: its own Triad class,    *)
(* whose tree grows while the engine runs                                 *)
(* ---------------------------------------------------------------------- *)

(* The names of the engine's nodes: 'Ω' is written Omega and the suffix    *)
(* '_μ' is written _mu.                                                    *)
Forces == << "GRAV", "EM", "STRONG", "WEAK" >>

MuName(d) == d \o "_mu"

DecimalDigits == << "0", "1", "2", "3", "4", "5", "6", "7", "8", "9" >>

(* str(n) for n >= 0. *)
RECURSIVE Decimal(_)
Decimal(n) ==
    IF n < 10 THEN DecimalDigits[n + 1]
    ELSE Decimal(n \div 10) \o DecimalDigits[(n % 10) + 1]

(* SpawnName with the counter left out of the name. *)
SpawnNameFixed(triad_count) == "T" \o Decimal(8)

(* f'T{self.triad_count}'. *)
SpawnName(triad_count) == "T" \o Decimal(triad_count)

(* The lengths of Triad.buf and Triad.history. *)
BufLen == 48

TriadHistoryLen == 200

(* Triad.__init__(name, depth): the fields of a new node.  children holds  *)
(* the keys of the dict; the child nodes are kept in the tree, a function  *)
(* from names to nodes (the engine gives every node of its tree a name of  *)
(* its own).                                                               *)
PhysicsTriad(name, depth) ==
    [ name |-> name,
      depth |-> depth,
      ema |-> 0,
      emv |-> 0,
      s |-> TStarScore,
      count |-> 0,
      buf |-> << >>,
      children |-> {},
      cc |-> EmptyDict,
      history |-> << >> ]

(* Triad.spawn(name) on node parent of the tree T: self.children[name] is  *)
(* assigned, so a child of that name is replaced by the new node.          *)
Triad_spawn(T, parent, name) ==
    LET c == PhysicsTriad(name, T[parent].depth + 1)
        withChild == [k \in (DOMAIN T) \cup {name} |->
                         IF k = name THEN c ELSE T[k]]
    IN  [withChild EXCEPT ![parent].children = @ \cup {name}]

(* s_star(V, A) of the physics file: V and A are clamped to [0, 1]. *)
ClampedSStar(V, A) == s_star(Max(0, Min(Milli, V)), Max(0, Min(Milli, A)))

(* cv = math.sqrt(self.emv) / self.ema if self.ema > 0.001 else 1. *)
TriadCv(node) == IF node.ema > 1 THEN Cv(node.ema, node.emv) ELSE Milli

(* ali of Triad.observe(), from r = self.buf[-4:], len(self.buf) >= 4. *)
TriadAli(buf) ==
    LET df == Diffs(LastN(buf, 4))
        same == Cardinality({i \in 1..(Len(df) - 1) :
                               (df[i] >= 0) = (df[i + 1] >= 0)})
    IN  IF Monotonic(df) THEN Milli ELSE ((same + 1) * Milli) \div Len(df)

(* (own + cm * C) / (1 + C), cm the mean of the reported children. *)
TriadBlend(own, cc) ==
    (own + (DictSum(cc) \div Cardinality(DOMAIN cc)) * C) \div (1 + C)

(* Triad.observe(value) on node n of the tree T. *)
Triad_observe(T, n, value) ==
    LET node == T[n]
        ema == IF node.count + 1 = 1 THEN value
               ELSE (ALPHA * value + SIGMA * node.ema) \div Milli
        emv == IF node.count + 1 = 1 THEN 0
               ELSE MulMilli((value - ema) * (value - ema), ALPHA)
                    + MulMilli(node.emv, SIGMA)
        fed == [node EXCEPT !.count = @ + 1,
                            !.buf = LastN(Append(@, value), BufLen),
                            !.ema = ema,
                            !.emv = emv]
        own == IF Len(fed.buf) >= 4
               THEN ClampedSStar(Vitality(TriadCv(fed)), TriadAli(fed.buf))
               ELSE TStarScore
        s == IF DOMAIN fed.cc # {} THEN TriadBlend(own, fed.cc) ELSE own
    IN  [T EXCEPT ![n] = [fed EXCEPT
                            !.s = s,
                            !.history = LastN(Append(@, s), TriadHistoryLen)]]

(* Triad.recv(name, cs) on node p of the tree T. *)
Triad_recv(T, p, name, cs) ==
    LET cc == DictSet(T[p].cc, name, cs)
        ownS == ClampedSStar(Vitality(TriadCv(T[p])), Milli \div 2)
    IN  [T EXCEPT ![p].cc = cc, ![p].s = TriadBlend(ownS, cc)]

(* The tree TIGPhysicsEngine.__init__ builds: the root, EPOCH under it,    *)
(* the four force nodes under EPOCH, one micro node under each force.      *)
RECURSIVE SpawnForces(_, _)
SpawnForces(T, ds) ==
    IF ds = << >> THEN T
    ELSE LET d == Head(ds)
         IN  SpawnForces(Triad_spawn(Triad_spawn(T, "EPOCH", d), d, MuName(d)),
                         Tail(ds))

EngineTree ==
    LET root == [k \in {"Omega"} |-> PhysicsTriad("Omega", 0)]
    IN  SpawnForces(Triad_spawn(root, "Omega", "EPOCH"), Forces)

(* self.triad_count after __init__. *)
FirstTriadCount == 8

(* The operator of stage i of TIGPhysicsEngine.advance_spine(): the noise  *)
(* of stage 6 is random.gauss(0, 0.002), stage 8 reads self.tick.          *)
EngineSpineOperator(i, o, p, sp, noise, tick) ==
    CASE i = 0 -> ((p * (Milli - SIGMA)) \div Milli) \div 10
      [] i = 1 -> (o * SIGMA + p * (Milli - SIGMA)) \div Milli
      [] i = 2 -> (Abs(o - p) * SIGMA + o * (Milli - SIGMA)) \div Milli
      [] i = 3 -> o + ((SpineOne - o) * (Milli - SIGMA)) \div Milli
      [] i = 4 -> (o * SIGMA) \div Milli
      [] i = 5 -> (o + SumSeq(sp) \div 10) \div 2
      [] i = 6 -> (o * SIGMA) \div Milli + noise
      [] i = 7 -> ISqrt(Max(SpineMin * SpineOne, o * p))
      [] i = 8 -> o + (o * 8 * SinMilli(tick)) \div Million
      [] i = 9 -> (o * SIGMA + TStarSpine * (Milli - SIGMA)) \div Milli

(* self.spine after TIGPhysicsEngine.advance_spine(). *)
EngineAdvancedSpine(sp, i, noise, tick) ==
    LET new == EngineSpineOperator(i, sp[i + 1], sp[((i + 9) % 10) + 1], sp,
                                   noise, tick)
    IN  [sp EXCEPT ![i + 1] = Max(SpineMin, Min(SpineOne, new))]

(* One feed of step(): the micro node of force d observes a value and its  *)
(* score is received by the force node.                                    *)
Feed(T, d, value) ==
    LET T1 == Triad_observe(T, MuName(d), value)
    IN  Triad_recv(T1, d, MuName(d), T1[MuName(d)].s)

RECURSIVE FeedAll(_, _)
FeedAll(T, feeds) ==
    IF feeds = << >> THEN T
    ELSE FeedAll(Feed(T, Head(feeds)[1], Head(feeds)[2]), Tail(feeds))

(* The spawns of the bond loop of step(): n new bonds pass the random      *)
(* test; each spawns a child of STRONG and then advances triad_count.      *)
RECURSIVE SpawnAll(_, _, _)
SpawnAll(T, triad_count, n) ==
    IF n = 0 THEN [tree |-> T, triad_count |-> triad_count]
    ELSE SpawnAll(Triad_spawn(T, "STRONG", SpawnName(triad_count)),
                  triad_count + 1, n - 1)

(* The end of step(): EPOCH receives the four forces, the root EPOCH. *)
Propagate(T) ==
    LET T1 == Triad_recv(T, "EPOCH", "GRAV", T["GRAV"].s)
        T2 == Triad_recv(T1, "EPOCH", "EM", T1["EM"].s)
        T3 == Triad_recv(T2, "EPOCH", "STRONG", T2["STRONG"].s)
        T4 == Triad_recv(T3, "EPOCH", "WEAK", T3["WEAK"].s)
    IN  Triad_recv(T4, "Omega", "EPOCH", T4["EPOCH"].s)

(* How many steps a run of the engine takes, and how many new bonds of one *)
(* step may pass the random test.                                          *)
MaxSteps == 3

MaxSpawns == 2

(* What the particles feed to the triads in one step.  The particles and   *)
(* the bonds are not kept in the state: the values the pair loop observes  *)
(* (a distance for WEAK, a local score for STRONG), the speed and the      *)
(* charge of a sampled particle, and the number of new bonds that pass     *)
(* random.random() < 0.3 are inputs.                                       *)
PairFeeds ==
    { << >>,
      << << "WEAK", 5000 >> >>,
      << << "STRONG", 400 >>, << "STRONG", 900 >>, << "STRONG", 400 >> >> }

Physics ==
    [ steps |-> MaxSteps, spawns |-> MaxSpawns, feeds |-> PairFeeds,
      speed |-> {500, 1500}, charge |-> {700}, noise |-> {-60, 0, 60} ]

(* TIGPhysicsEngine.step(). *)
Step ==
    /\ engine.tick < scenario.steps
    /\ \E feeds \in scenario.feeds, speed \in scenario.speed,
          charge \in scenario.charge, n \in 0..scenario.spawns,
          noise \in (IF spine_phase = 6 THEN scenario.noise ELSE {0}) :
         LET tick == engine.tick + 1
             fed == Feed(Feed(FeedAll(triads, feeds), "GRAV", speed),
                         "EM", charge)
             spawned == SpawnAll(fed, engine.triad_count, n)
         IN  /\ spine' = EngineAdvancedSpine(spine, spine_phase, noise, tick)
             /\ spine_phase' = (spine_phase + 1) % 10
             /\ epoch_count' = IF (spine_phase + 1) % 10 = 0
                               THEN epoch_count + 1 ELSE epoch_count
             /\ triads' = Propagate(spawned.tree)
             /\ engine' = [tick |-> tick, triad_count |-> spawned.triad_count]
    /\ UNCHANGED << constructed, pulse, ops_total, ops_by_domain, last,
                    spine_log, calls, nlate, scenario, running, pc, frame,
                    nbeats, stopped, snapshot >>

(* The state after TIGPhysicsEngine(): no LatticeRuntime is involved. *)
InitPhysics ==
    /\ constructed = FALSE
    /\ pulse = None
    /\ triads = EngineTree
    /\ spine = [i \in 1..10 |-> TStarSpine]
    /\ spine_phase = 0
    /\ epoch_count = 0
    /\ engine = [tick |-> 0, triad_count |-> FirstTriadCount]
    /\ ops_total = 0
    /\ ops_by_domain = EmptyDict
    /\ last = NoCall
    /\ spine_log = << >>
    /\ calls = 0
    /\ nlate = 0
    /\ running = FALSE
    /\ pc = [caller |-> "idle", beat |-> None, beat2 |-> None]
    /\ frame = [caller |-> NoFrame, beat |-> NoFrame, beat2 |-> NoFrame]
    /\ nbeats = 0
    /\ stopped = FALSE
    /\ snapshot = << >>
    /\ scenario = Physics

NextPhysics == Step

SpecPhysics == InitPhysics /\ [][NextPhysics]_vars

(* C26: a step of the engine only adds nodes.  Every node stays, keeps its *)
(* depth and every child it had; the nodes a step adds are exactly         *)
(* triad_count' - triad_count new children of STRONG, none of them a name  *)
(* STRONG had before, each with count 0, an empty buffer, no children and  *)
(* score T*; and no node that has observed is reset.                       *)
C26_SpawnOnlyAdds ==
    [][ LET added == (DOMAIN triads') \ (DOMAIN triads)
        IN  /\ DOMAIN triads \subseteq DOMAIN triads'
            /\ \A k \in DOMAIN triads :
                 /\ triads[k].children \subseteq triads'[k].children
                 /\ triads'[k].depth = triads[k].depth
                 /\ triads'[k].count >= triads[k].count
                 /\ k # "STRONG" => triads'[k].children = triads[k].children
            /\ triads'["STRONG"].children
                 = triads["STRONG"].children \cup added
            /\ Cardinality(added) = engine'.triad_count - engine.triad_count
            /\ \A k \in added :
                 /\ triads'[k].count = 0
                 /\ triads'[k].buf = << >>
                 /\ triads'[k].history = << >>
                 /\ triads'[k].children = {}
                 /\ triads'[k].s = TStarScore
                 /\ triads'[k].depth = triads["STRONG"].depth + 1 ]_vars

(* Two steps have spawned: STRONG has its micro node and at least three    *)
(* spawned children, and its micro node has observed.                      *)
C26_Witness ==
    /\ engine.tick >= 2
    /\ engine.triad_count >= FirstTriadCount + 3
    /\ Cardinality(triads["STRONG"].children) = engine.triad_count - 7
    /\ triads[MuName("STRONG")].count > 0
    /\ { "T8", "T9", "T10" } \subseteq triads["STRONG"].children

(* No call of tick() or op() is in progress in either thread. *)
AllReturned ==
    /\ pc.caller = "idle"
    /\ \A b \in ThreadNames \ {"caller"} : pc[b] \in {None, "while", "finished"}

(* C27: no spine advance is lost.  spine_log has one entry for every       *)
(* _advance_spine() that has run, and every tick() and every op() whose    *)
(* work returns runs it once: when all calls have returned,                *)
(* 10 * epoch_count + spine_phase is the number of those calls.            *)
C27_NoAdvanceLost ==
    AllReturned => 10 * epoch_count + spine_phase = Len(spine_log)

(* A heartbeat thread is in the loop of _beat(): started and not ended. *)
Ticking(b) == pc[b] \notin {None, "finished"}

(* C28: at most one heartbeat thread ticks at any time: there is no state  *)
(* in which two threads made by start_heartbeat() are both in the loop of  *)
(* _beat().                                                                *)
C28_OneHeartbeat ==
    Cardinality({b \in ThreadNames \ {"caller"} : Ticking(b)}) <= 1

(* C29: for every known domain d, the ops status() reports for d (the      *)
(* count of the domain's node) is ops_by_domain[d], and the domain's node  *)
(* and its micro node have observed equally often.                         *)
C29_DomainCountsAgree ==
    constructed
    => \A d \in DomainSet :
         /\ StatusDict.domain_health[d].ops = ops_by_domain[d]
         /\ triads[Upper(d)].count = triads[MicroName(d)].count

(* C30: ops_total is the sum of the values of ops_by_domain, before and    *)
(* after every call, whether the domain is one of the runtime's or not;    *)
(* no call lowers ops_total, removes a key of ops_by_domain or lowers its  *)
(* value.                                                                  *)
C30_TotalIsSumOfDomains ==
    [][ /\ ops_total = DictSum(ops_by_domain)
        /\ ops_total' = DictSum(ops_by_domain')
        /\ ops_total' >= ops_total
        /\ \A k \in DOMAIN ops_by_domain :
             /\ k \in DOMAIN ops_by_domain'
             /\ ops_by_domain'[k] >= ops_by_domain[k] ]_vars

(* Calls on a domain of the runtime and on one it does not know have been  *)
(* counted, one of them with a work that raised, and a tick() has run.     *)
C30_Witness ==
    /\ constructed
    /\ ops_total >= 3
    /\ \E k \in DOMAIN ops_by_domain : k \notin DomainSet /\ ops_by_domain[k] >= 1
    /\ \E d \in DomainSet : ops_by_domain[d] >= 1
    /\ last.call = "tick"
    /\ \E d \in DomainSet : ops_by_domain[d] > triads[Upper(d)].count

====
